---- MODULE Spec2Model ----
(***************************************************************************)
(* chirouter: the per-frame classifier of router.c                         *)
(* (chirouter_process_ethernet_frame and its helpers) running against the  *)
(* ARP worker, with the ARP cache and the pending-request list guarded by  *)
(* the context's ARP mutex.                                                *)
(*                                                                         *)
(* IPv4 addresses are 4-bit numbers, MAC addresses are small numbers.      *)
(* The ARP module (arp.c) is not part of router.c; its operations are      *)
(* modelled from the specification (sections 4.3, 4.4 and 4.7).            *)
(***************************************************************************)
EXTENDS Integers, Sequences, FiniteSets, TLC

(* ------------------------------ bounds -------------------------------- *)

\* a run ends once this many frames that reach the ARP tables (datagrams to
\* forward with a route, ARP replies for the router) were delivered; frames
\* answered without the ARP tables do not count
MaxFrames == 3

\* lifetime of an ARP cache entry in worker ticks (configured; longer than the
\* five ticks after which a pending request is abandoned)
ArpCacheTTL == 6

\* longest routing table given to a route lookup on its own
MaxRoutes == 3

(* ------------------------- protocol constants ------------------------- *)

ETHERTYPE_IP == 2048
ETHERTYPE_IPV6 == 34525
ETHERTYPE_ARP == 2054
ETHERTYPE_OTHER == 35020

IPPROTO_ICMP == 1
IPPROTO_TCP == 6
IPPROTO_UDP == 17
IPPROTO_GRE == 47

ICMPTYPE_ECHO_REPLY == 0
ICMPTYPE_DEST_UNREACHABLE == 3
ICMPTYPE_ECHO_REQUEST == 8
ICMPTYPE_TIME_EXCEEDED == 11

ICMPCODE_DEST_NET_UNREACHABLE == 0
ICMPCODE_DEST_HOST_UNREACHABLE == 1
ICMPCODE_DEST_PROTOCOL_UNREACHABLE == 2
ICMPCODE_DEST_PORT_UNREACHABLE == 3

ARP_OP_REQUEST == 1
ARP_OP_REPLY == 2
ARP_OP_OTHER == 3

\* TTL of every ICMP message the router generates
ICMP_TTL == 64

\* retry cap of the ARP worker
ARP_MAX_SENT == 5

\* the broadcast MAC address ff:ff:ff:ff:ff:ff
BROADCAST_MAC == 255

\* the null pointer, and the value of fields a frame kind does not have
NULL == 0

(* --------------------------- configuration ---------------------------- *)

\* ctx->interfaces: the router's interfaces, in order
interfaces ==
  << [name |-> "eth0", mac |-> 10, ip |-> 1],
     [name |-> "eth1", mac |-> 11, ip |-> 5] >>

IfIdx == 1 .. Len(interfaces)

\* ctx->routing_table: 0/12 and 4/12 directly connected, 8/12 through
\* gateway 6 on eth1, the more specific 8/14 through gateway 2 on eth0;
\* 12..15 have no route
routing_table ==
  << [dest |-> 0, mask |-> 12, gw |-> 0, interface |-> 1],
     [dest |-> 4, mask |-> 12, gw |-> 0, interface |-> 2],
     [dest |-> 8, mask |-> 12, gw |-> 6, interface |-> 2],
     [dest |-> 8, mask |-> 14, gw |-> 2, interface |-> 1] >>

\* MAC addresses of the stations on the two links
HostMACs == {20, 21, 22, 26}

(* ------------------------------ helpers ------------------------------- *)

RECURSIVE BitAnd(_, _)
\* a & b on unsigned integers
BitAnd(a, b) ==
  IF a = 0 \/ b = 0 THEN 0
  ELSE (a % 2) * (b % 2) + 2 * BitAnd(a \div 2, b \div 2)

\* get_forward_ip: the gateway when it is non-zero, else the destination
get_forward_ip(routing_entry, dst_ip) ==
  IF routing_entry.gw # 0 THEN routing_entry.gw ELSE dst_ip

RECURSIVE MatchLoop_LastWins(_, _, _, _)
\* mutant: the masks are compared with <=, a later entry with the same mask
\* replaces the one held
MatchLoop_LastWins(rt, dst, i, result) ==
  IF i > Len(rt) THEN result
  ELSE IF BitAnd(dst, rt[i].mask) = rt[i].dest
       THEN IF result # NULL
            THEN IF rt[result].mask <= rt[i].mask
                 THEN MatchLoop_LastWins(rt, dst, i + 1, i)
                 ELSE MatchLoop_LastWins(rt, dst, i + 1, result)
            ELSE MatchLoop_LastWins(rt, dst, i + 1, i)
       ELSE MatchLoop_LastWins(rt, dst, i + 1, result)

RECURSIVE MatchLoop(_, _, _, _)
\* the loop of chirouter_get_matching_entry from index i on; result is the
\* index of the entry held so far, NULL when none
MatchLoop(rt, dst, i, result) ==
  IF i > Len(rt) THEN result
  ELSE IF BitAnd(dst, rt[i].mask) = rt[i].dest
       THEN IF result # NULL
            THEN IF rt[result].mask < rt[i].mask
                 THEN MatchLoop(rt, dst, i + 1, i)
                 ELSE MatchLoop(rt, dst, i + 1, result)
            ELSE MatchLoop(rt, dst, i + 1, i)
       ELSE MatchLoop(rt, dst, i + 1, result)

\* chirouter_get_matching_entry: index of the routing entry for dst, or NULL
chirouter_get_matching_entry(rt, dst) == MatchLoop(rt, dst, 1, NULL)

\* mutant: the loop stops one interface short
chirouter_find_match_router_OffByOne(dst) ==
  \E i \in 1 .. Len(interfaces) - 1 : interfaces[i].ip = dst

\* chirouter_find_match_router: some interface of the router has this IP
chirouter_find_match_router(dst) ==
  \E i \in IfIdx : interfaces[i].ip = dst

\* ttl - 1 stored into the 8-bit TTL field
TtlDecrement(ttl) == (ttl - 1) % 256

\* the frame forward_ip_datagram sends for frame f with destination MAC
\* dst_mac: on the interface of f's routing entry
forward_ip_datagram(f, dst_mac) ==
  LET rentry == routing_table[chirouter_get_matching_entry(routing_table, f.dip)]
  IN [kind |-> "fwd", iface |-> rentry.interface,
      smac |-> interfaces[rentry.interface].mac, dmac |-> dst_mac,
      sip |-> f.sip, dip |-> f.dip, ttl |-> TtlDecrement(f.ttl),
      type |-> NULL, code |-> NULL, trig |-> f.id]

\* mutant: the IP source is the triggering frame's destination address
chirouter_send_icmp_FromFrameDst(type, code, f) ==
  [kind |-> "icmp", iface |-> f.inif,
   smac |-> interfaces[f.inif].mac, dmac |-> f.smac,
   sip |-> f.dip, dip |-> f.sip, ttl |-> ICMP_TTL,
   type |-> type, code |-> code, trig |-> f.id]

\* the frame chirouter_send_icmp sends in answer to frame f
chirouter_send_icmp(type, code, f) ==
  [kind |-> "icmp", iface |-> f.inif,
   smac |-> interfaces[f.inif].mac, dmac |-> f.smac,
   sip |-> interfaces[f.inif].ip, dip |-> f.sip, ttl |-> ICMP_TTL,
   type |-> type, code |-> code, trig |-> f.id]

\* the frame chirouter_send_arp_message sends on interface i: a broadcast
\* request for tpa, or a reply to (tha, tpa)
chirouter_send_arp_message(i, tha, tpa, op) ==
  [kind |-> IF op = ARP_OP_REQUEST THEN "arpreq" ELSE "arprep", iface |-> i,
   smac |-> interfaces[i].mac,
   dmac |-> IF op = ARP_OP_REQUEST THEN BROADCAST_MAC ELSE tha,
   sip |-> interfaces[i].ip, dip |-> tpa, ttl |-> NULL,
   type |-> NULL, code |-> NULL, trig |-> NULL]

(* ------------------------------- frames ------------------------------- *)

\* an inbound frame: Ethernet source smac, ethertype etype, ingress interface
\* inif; for IP the header fields sip, dip, proto, ttl and the ICMP type
\* itype; for ARP op, sha (in smac), spa (in sip) and tpa (in dip)
Frame(etype, inif, smac, sip, dip, proto, ttl, itype, op) ==
  [id |-> NULL, etype |-> etype, inif |-> inif, smac |-> smac, sip |-> sip,
   dip |-> dip, proto |-> proto, ttl |-> ttl, itype |-> itype, op |-> op]

NoFrame == Frame(NULL, NULL, NULL, NULL, NULL, NULL, NULL, NULL, NULL)

\* the host that sends IP datagrams on each link: address and MAC
HostIP(i) == IF i = 1 THEN 3 ELSE 7
HostMAC(i) == IF i = 1 THEN 20 ELSE 21

\* the neighbours that answer ARP: 2 on eth0, 6 on eth1, and their MACs
NeighbourIPs == {2, 6}
NeighbourIP(i) == IF i = 1 THEN 2 ELSE 6
NeighbourMAC(ip) == 20 + ip

\* IP datagrams addressed to the interface they arrive on
ToMeFrames ==
  { Frame(ETHERTYPE_IP, 1, HostMAC(1), HostIP(1), interfaces[1].ip, p, t, NULL, NULL) :
      p \in {IPPROTO_TCP, IPPROTO_UDP, IPPROTO_GRE}, t \in {1, 64} }
  \cup
  { Frame(ETHERTYPE_IP, 1, HostMAC(1), HostIP(1), interfaces[1].ip, IPPROTO_ICMP, t, y, NULL) :
      t \in {1, 64}, y \in {ICMPTYPE_ECHO_REQUEST, ICMPTYPE_ECHO_REPLY} }
  \cup
  { Frame(e, 2, HostMAC(2), HostIP(2), interfaces[2].ip, IPPROTO_ICMP, 64,
          ICMPTYPE_ECHO_REQUEST, NULL) :
      e \in {ETHERTYPE_IP, ETHERTYPE_IPV6} }

\* IP datagrams addressed to the router's other interface
ToOtherFrames ==
  { Frame(ETHERTYPE_IP, i, HostMAC(i), HostIP(i), interfaces[3 - i].ip, pt[1], pt[2], NULL, NULL) :
      i \in IfIdx, pt \in {<< IPPROTO_UDP, 64 >>, << IPPROTO_GRE, 1 >>} }

\* IP datagrams to be forwarded: to 6 (directly connected on eth1), to 10
\* (gateway 6 on eth1), to 8 (gateway 2 on eth0) and to 12 (no route)
TransitFrames ==
  { Frame(ETHERTYPE_IP, 1, HostMAC(1), HostIP(1), dt[1], IPPROTO_UDP, dt[2], NULL, NULL) :
      dt \in {<< 6, 2 >>, << 10, 0 >>, << 10, 1 >>, << 10, 2 >>,
              << 12, 1 >>, << 12, 2 >>} }
  \cup
  { Frame(ETHERTYPE_IP, 2, HostMAC(2), HostIP(2), 8, IPPROTO_UDP, 2, NULL, NULL) }

\* ARP packets: from each neighbour on its link, for the router's address on
\* that link with every opcode, and for the router's other address
ArpFrames ==
  { Frame(ETHERTYPE_ARP, i, NeighbourMAC(NeighbourIP(i)), NeighbourIP(i),
          interfaces[i].ip, NULL, NULL, NULL, o) :
      i \in IfIdx, o \in {ARP_OP_REQUEST, ARP_OP_REPLY} }
  \cup
  { Frame(ETHERTYPE_ARP, 1, NeighbourMAC(2), 2, interfaces[1].ip, NULL, NULL, NULL, ARP_OP_OTHER),
    Frame(ETHERTYPE_ARP, 1, NeighbourMAC(2), 2, interfaces[2].ip, NULL, NULL, NULL, ARP_OP_REQUEST),
    Frame(ETHERTYPE_ARP, 1, NeighbourMAC(2), 2, interfaces[2].ip, NULL, NULL, NULL, ARP_OP_REPLY),
    Frame(ETHERTYPE_ARP, 1, NeighbourMAC(6), 6, interfaces[1].ip, NULL, NULL, NULL, ARP_OP_REPLY) }

\* frames of another ethertype
OtherFrames ==
  { Frame(ETHERTYPE_OTHER, 1, HostMAC(1), NULL, NULL, NULL, NULL, NULL, NULL) }

Frames == ToMeFrames \cup ToOtherFrames \cup TransitFrames \cup ArpFrames \cup OtherFrames

(* ------------------------------- state -------------------------------- *)

VARIABLES
  arp_cache,        \* ctx->arpcache: set of [ip, mac, age]
  pending_arp_reqs, \* ctx->pending_arp_reqs: sequence of pending requests;
                    \* last_sent is "epoch" (time 0) or "now" (the time of
                    \* the step that wrote it)
  lock_arp,         \* ctx->lock_arp: "free" or "classifier"
  pc,               \* position of the classifier
  frame,            \* the frame being processed
  arpcache_entry,   \* local of the classifier: cache entry found (its ip) or NULL
  pending_req,      \* local of the classifier: pending entry found (its ip) or NULL
  rv,               \* value returned by chirouter_process_ethernet_frame
  sent,             \* frames sent by the classifier in the current call
  wsent,            \* frames sent by the ARP worker in its last tick
  nframes,          \* frames delivered so far
  held0,            \* history: the frames withheld for the sender of the ARP
                    \* reply being processed, when it was put in the cache
  stale,            \* history: the call used a pending entry already freed
  lookup,           \* a call of chirouter_get_matching_entry on its own: the
                    \* routing table and address given, and the entry returned
  rewrite           \* a call of forward_ip_datagram on its own: the bytes of
                    \* the frame and the MAC given, and the frame sent

vars == << arp_cache, pending_arp_reqs, lock_arp, pc, frame, arpcache_entry,
           pending_req, rv, sent, wsent, nframes, held0, stale, lookup, rewrite >>

\* values a call can leave in the return register
RetVals == {-1, 0, 1, 7}

\* no call of chirouter_get_matching_entry on its own
NoLookup == [rt |-> << >>, dst |-> NULL, result |-> NULL, pc |-> "none"]

\* the router after chirouter_ctx_init: empty cache, empty pending list
RouterInit ==
  /\ arp_cache = {}
  /\ pending_arp_reqs = << >>
  /\ lock_arp = "free"
  /\ pc = "idle"
  /\ frame = NoFrame
  /\ arpcache_entry = NULL
  /\ pending_req = NULL
  /\ rv = 0
  /\ sent = << >>
  /\ wsent = << >>
  /\ nframes = 0
  /\ held0 = << >>
  /\ stale = FALSE

\* no call of forward_ip_datagram on its own
NoRewrite == [raw |-> << >>, dst_mac |-> NULL, out |-> << >>, iface |-> NULL,
              pc |-> "none"]

Init == RouterInit /\ lookup = NoLookup /\ rewrite = NoRewrite

(* ------------------------- ARP module (arp.c) ------------------------- *)

\* chirouter_arp_cache_lookup: the cache entry for ip (named by its ip) or NULL
chirouter_arp_cache_lookup(cache, ip) ==
  IF \E e \in cache : e.ip = ip THEN ip ELSE NULL

\* chirouter_arp_cache_add: insert or refresh the entry for ip, age 0
chirouter_arp_cache_add(cache, ip, mac) ==
  {e \in cache : e.ip # ip} \cup {[ip |-> ip, mac |-> mac, age |-> 0]}

\* the MAC read out of the cache entry a lookup returned. The entry may have
\* been expired by the worker since: the read then yields whatever the slot
\* holds
EntryMACs(cache, entry) ==
  IF \E e \in cache : e.ip = entry
  THEN {e.mac : e \in {x \in cache : x.ip = entry}}
  ELSE HostMACs \cup {NULL}

\* index of the pending request for ip in reqs, or NULL
PendingIndex(reqs, ip) ==
  IF \E i \in 1 .. Len(reqs) : reqs[i].ip = ip
  THEN CHOOSE i \in 1 .. Len(reqs) :
         reqs[i].ip = ip /\ \A j \in 1 .. i - 1 : reqs[j].ip # ip
  ELSE NULL

\* chirouter_arp_pending_req_lookup: the pending request for ip (named by
\* its ip) or NULL
chirouter_arp_pending_req_lookup(reqs, ip) ==
  IF PendingIndex(reqs, ip) # NULL THEN ip ELSE NULL

\* chirouter_arp_pending_req_add: append a new request with times_sent = 0,
\* last_sent = 0 (the epoch) and no withheld frames; nreq counts the ARP
\* requests sent for the entry
chirouter_arp_pending_req_add(reqs, ip, iface) ==
  Append(reqs, [ip |-> ip, interface |-> iface, times_sent |-> 0,
                last_sent |-> "epoch", withheld_frames |-> << >>, nreq |-> 0])

\* chirouter_arp_pending_req_add_frame: append a copy of f to the withheld
\* frames of the request at index i
chirouter_arp_pending_req_add_frame(reqs, i, f) ==
  [reqs EXCEPT ![i].withheld_frames = Append(@, f)]

\* the frames withheld for ip in reqs
HeldFor(reqs, ip) ==
  IF PendingIndex(reqs, ip) = NULL THEN << >>
  ELSE reqs[PendingIndex(reqs, ip)].withheld_frames

\* mutant: the request is not taken out of the list
RemoveAt_NotDeleted(reqs, i) == reqs

\* the list without the request at index i
RemoveAt(reqs, i) ==
  [j \in 1 .. Len(reqs) - 1 |-> IF j < i THEN reqs[j] ELSE reqs[j + 1]]

\* what the worker does with one pending request: abandon it at the retry
\* cap, else send another ARP request
WorkerAbandons(req) == req.times_sent >= ARP_MAX_SENT

\* the request after a retransmission
WorkerResend(req) ==
  [req EXCEPT !.times_sent = @ + 1, !.last_sent = "now", !.nreq = @ + 1]

\* frames the worker sends for one pending request
WorkerFrames(req) ==
  IF WorkerAbandons(req)
  THEN [k \in 1 .. Len(req.withheld_frames) |->
          chirouter_send_icmp(ICMPTYPE_DEST_UNREACHABLE,
                              ICMPCODE_DEST_HOST_UNREACHABLE,
                              req.withheld_frames[k])]
  ELSE << chirouter_send_arp_message(req.interface, NULL, req.ip, ARP_OP_REQUEST) >>

RECURSIVE WorkerPending(_)
\* the pending list after one tick of the worker
WorkerPending(reqs) ==
  IF reqs = << >> THEN << >>
  ELSE IF WorkerAbandons(Head(reqs))
       THEN WorkerPending(Tail(reqs))
       ELSE << WorkerResend(Head(reqs)) >> \o WorkerPending(Tail(reqs))

RECURSIVE WorkerSent(_)
\* the frames the worker sends in one tick, in list order
WorkerSent(reqs) ==
  IF reqs = << >> THEN << >>
  ELSE WorkerFrames(Head(reqs)) \o WorkerSent(Tail(reqs))

\* the cache after the worker expired the entries older than the TTL
WorkerCache(cache) ==
  { [e EXCEPT !.age = @ + 1] : e \in {x \in cache : x.age < ArpCacheTTL} }

\* one tick of the ARP worker, all under the ARP mutex
ArpTick ==
  /\ pc # "exit"
  /\ lock_arp = "free"
  /\ arp_cache' = WorkerCache(arp_cache)
  /\ pending_arp_reqs' = WorkerPending(pending_arp_reqs)
  /\ wsent' = WorkerSent(pending_arp_reqs)
  /\ UNCHANGED << lookup, rewrite, lock_arp, pc, frame, arpcache_entry, pending_req, rv, sent,
                  nframes, held0, stale >>

(* ----------------- chirouter_process_ethernet_frame ------------------- *)

IsIp(f) == f.etype = ETHERTYPE_IP \/ f.etype = ETHERTYPE_IPV6

\* the routing entry of frame f (index into routing_table) and its next hop
ForwardEntry(f) == chirouter_get_matching_entry(routing_table, f.dip)
ForwardIp(f) == get_forward_ip(routing_table[ForwardEntry(f)], f.dip)

\* mutant: the TTL is checked before the protocol
LocalAnswer_TtlFirst(f) ==
  IF f.ttl = 1
  THEN << chirouter_send_icmp(ICMPTYPE_TIME_EXCEEDED, 0, f) >>
  ELSE IF f.proto = IPPROTO_TCP \/ f.proto = IPPROTO_UDP
  THEN << chirouter_send_icmp(ICMPTYPE_DEST_UNREACHABLE,
                              ICMPCODE_DEST_PORT_UNREACHABLE, f) >>
  ELSE IF f.proto = IPPROTO_ICMP
  THEN IF f.itype = ICMPTYPE_ECHO_REQUEST
       THEN << chirouter_send_icmp(ICMPTYPE_ECHO_REPLY, 0, f) >>
       ELSE << >>
  ELSE << chirouter_send_icmp(ICMPTYPE_DEST_UNREACHABLE,
                              ICMPCODE_DEST_PROTOCOL_UNREACHABLE, f) >>

\* mutant: the echo-request test is joined to the protocol test, so other
\* ICMP messages fall through to protocol unreachable
LocalAnswer_IcmpFallsThrough(f) ==
  IF f.proto = IPPROTO_TCP \/ f.proto = IPPROTO_UDP
  THEN << chirouter_send_icmp(ICMPTYPE_DEST_UNREACHABLE,
                              ICMPCODE_DEST_PORT_UNREACHABLE, f) >>
  ELSE IF f.ttl = 1
  THEN << chirouter_send_icmp(ICMPTYPE_TIME_EXCEEDED, 0, f) >>
  ELSE IF f.proto = IPPROTO_ICMP /\ f.itype = ICMPTYPE_ECHO_REQUEST
  THEN << chirouter_send_icmp(ICMPTYPE_ECHO_REPLY, 0, f) >>
  ELSE << chirouter_send_icmp(ICMPTYPE_DEST_UNREACHABLE,
                              ICMPCODE_DEST_PROTOCOL_UNREACHABLE, f) >>

\* frames sent for an IP datagram addressed to its ingress interface
LocalAnswer(f) ==
  IF f.proto = IPPROTO_TCP \/ f.proto = IPPROTO_UDP
  THEN << chirouter_send_icmp(ICMPTYPE_DEST_UNREACHABLE,
                              ICMPCODE_DEST_PORT_UNREACHABLE, f) >>
  ELSE IF f.ttl = 1
  THEN << chirouter_send_icmp(ICMPTYPE_TIME_EXCEEDED, 0, f) >>
  ELSE IF f.proto = IPPROTO_ICMP
  THEN IF f.itype = ICMPTYPE_ECHO_REQUEST
       THEN << chirouter_send_icmp(ICMPTYPE_ECHO_REPLY, 0, f) >>
       ELSE << >>
  ELSE << chirouter_send_icmp(ICMPTYPE_DEST_UNREACHABLE,
                              ICMPCODE_DEST_PROTOCOL_UNREACHABLE, f) >>

\* frame sent for an IP datagram addressed to another interface of the router
OtherInterfaceAnswer(f) ==
  << chirouter_send_icmp(ICMPTYPE_DEST_UNREACHABLE,
                         ICMPCODE_DEST_HOST_UNREACHABLE, f) >>

\* mutant: the code of host unreachable is sent
NoRouteAnswer_HostCode(f) ==
  << chirouter_send_icmp(ICMPTYPE_DEST_UNREACHABLE,
                         ICMPCODE_DEST_HOST_UNREACHABLE, f) >>

\* frame sent for an IP datagram without a route
NoRouteAnswer(f) ==
  << chirouter_send_icmp(ICMPTYPE_DEST_UNREACHABLE,
                         ICMPCODE_DEST_NET_UNREACHABLE, f) >>

\* mutant: the TTL is not looked at before forwarding
ForwardOrExpire_NoTtlCheck(f, mac) == forward_ip_datagram(f, mac)

\* frame sent for datagram f once its next-hop MAC is known
ForwardOrExpire(f, mac) ==
  IF f.ttl = 1
  THEN chirouter_send_icmp(ICMPTYPE_TIME_EXCEEDED, 0, f)
  ELSE forward_ip_datagram(f, mac)

\* the I/O layer hands frame f to the classifier
Deliver(f) ==
  /\ pc = "idle"
  /\ nframes < MaxFrames
  /\ frame' = [f EXCEPT !.id = nframes + 1]

\* a call that touches neither the cache nor the pending list and returns r
Answer(out, r) ==
  /\ UNCHANGED << nframes, held0 >>
  /\ sent' = out
  /\ rv' = r
  /\ pc' = "ret"
  /\ UNCHANGED << lookup, rewrite, arp_cache, pending_arp_reqs, lock_arp, arpcache_entry,
                  pending_req, wsent, stale >>

\* an IP datagram for the ingress interface's own address
IpToMe ==
  \E f \in Frames :
    /\ Deliver(f)
    /\ IsIp(f)
    /\ f.dip = interfaces[f.inif].ip
    /\ Answer(LocalAnswer(frame'), 0)

\* an IP datagram for another address of the router
IpToOtherInterface ==
  \E f \in Frames :
    /\ Deliver(f)
    /\ IsIp(f)
    /\ f.dip # interfaces[f.inif].ip
    /\ chirouter_find_match_router(f.dip)
    /\ Answer(OtherInterfaceAnswer(frame'), 0)

\* an IP datagram to forward, no routing entry
IpNoRoute ==
  \E f \in Frames :
    /\ Deliver(f)
    /\ IsIp(f)
    /\ f.dip # interfaces[f.inif].ip
    /\ ~chirouter_find_match_router(f.dip)
    /\ ForwardEntry(f) = NULL
    /\ Answer(NoRouteAnswer(frame'), 0)

\* an IP datagram to forward, routing entry found: go on to the cache lookup
IpForward ==
  \E f \in Frames :
    /\ Deliver(f)
    /\ IsIp(f)
    /\ f.dip # interfaces[f.inif].ip
    /\ ~chirouter_find_match_router(f.dip)
    /\ ForwardEntry(f) # NULL
    /\ nframes' = nframes + 1
    /\ held0' = held0
    /\ sent' = << >>
    /\ pc' = "lock374"
    /\ UNCHANGED << lookup, rewrite, arp_cache, pending_arp_reqs, lock_arp, arpcache_entry,
                    pending_req, rv, wsent, stale >>

\* pthread_mutex_lock(&ctx->lock_arp) at each of the classifier's lock points
AfterLock(p) ==
  CASE p = "lock374" -> "lookup375"
    [] p = "lock380" -> "lookup381"
    [] p = "lock387" -> "create389"
    [] p = "lock411" -> "attach413"
    [] p = "lock461" -> "add463"
    [] p = "lock473" -> "drain474"

LockPoints == {"lock374", "lock380", "lock387", "lock411", "lock461", "lock473"}

Lock ==
  /\ pc \in LockPoints
  /\ lock_arp = "free"
  /\ lock_arp' = "classifier"
  /\ pc' = AfterLock(pc)
  /\ UNCHANGED << lookup, rewrite, arp_cache, pending_arp_reqs, frame, arpcache_entry,
                  pending_req, rv, sent, wsent, nframes, held0, stale >>

\* where the classifier goes after the cache lookup returned entry
AfterCacheLookup(entry) ==
  IF entry = NULL THEN "lock380" ELSE "hit426"

\* chirouter_arp_cache_lookup and unlock
CacheLookup ==
  /\ pc = "lookup375"
  /\ arpcache_entry' = chirouter_arp_cache_lookup(arp_cache, ForwardIp(frame))
  /\ lock_arp' = "free"
  /\ pc' = AfterCacheLookup(arpcache_entry')
  /\ UNCHANGED << lookup, rewrite, arp_cache, pending_arp_reqs, frame, pending_req, rv, sent,
                  wsent, nframes, held0, stale >>

\* mutant: the result of the pending lookup is ignored, a request is always
\* created
AfterPendingLookup_AlwaysCreate(req) == "lock387"

\* where the classifier goes after the pending lookup returned req
AfterPendingLookup(req) ==
  IF req = NULL THEN "lock387" ELSE "lock411"

\* chirouter_arp_pending_req_lookup and unlock
PendingLookup ==
  /\ pc = "lookup381"
  /\ pending_req' = chirouter_arp_pending_req_lookup(pending_arp_reqs, ForwardIp(frame))
  /\ lock_arp' = "free"
  /\ pc' = AfterPendingLookup(pending_req')
  /\ UNCHANGED << lookup, rewrite, arp_cache, pending_arp_reqs, frame, arpcache_entry, rv, sent,
                  wsent, nframes, held0, stale >>

\* mutant: the first transmission is sent but not counted in times_sent
CreatedPending_NotCounted(reqs, ip, iface) ==
  LET added == chirouter_arp_pending_req_add(reqs, ip, iface)
  IN [added EXCEPT ![Len(added)].last_sent = "now", ![Len(added)].nreq = @ + 1]

\* mutant: the first transmission is counted twice
CreatedPending_CountedTwice(reqs, ip, iface) ==
  LET added == chirouter_arp_pending_req_add(reqs, ip, iface)
  IN [added EXCEPT ![Len(added)].times_sent = @ + 2,
                   ![Len(added)].last_sent = "now", ![Len(added)].nreq = @ + 1]

\* the list after the classifier created the request for ip, counted its
\* first transmission and stamped it with the current time
CreatedPending(reqs, ip, iface) ==
  LET added == chirouter_arp_pending_req_add(reqs, ip, iface)
  IN [added EXCEPT ![Len(added)].times_sent = @ + 1,
                   ![Len(added)].last_sent = "now", ![Len(added)].nreq = @ + 1]

\* no pending request: send the ARP request, create the request, attach the
\* frame; a failed attach returns -1 with the mutex still locked
CreatePending ==
  /\ pc = "create389"
  /\ sent' = Append(sent,
       chirouter_send_arp_message(routing_table[ForwardEntry(frame)].interface,
                                  NULL, ForwardIp(frame), ARP_OP_REQUEST))
  /\ pending_req' = ForwardIp(frame)
  /\ \E ok \in BOOLEAN :
       LET created == CreatedPending(pending_arp_reqs, ForwardIp(frame),
                                     routing_table[ForwardEntry(frame)].interface)
       IN IF ok
          THEN /\ pending_arp_reqs' =
                    chirouter_arp_pending_req_add_frame(created, Len(created), frame)
               /\ lock_arp' = "free"
               /\ rv' = 0
          ELSE /\ pending_arp_reqs' = created
               /\ lock_arp' = lock_arp
               /\ rv' = -1
  /\ pc' = "ret"
  /\ UNCHANGED << lookup, rewrite, arp_cache, frame, arpcache_entry, wsent, nframes, held0,
                  stale >>

\* a pending request was found: attach the frame to it. The request may have
\* been freed by the worker since the lookup; the write then goes to freed
\* memory and the frame is on no list, or the process crashes
AttachPending ==
  /\ pc = "attach413"
  /\ LET i == PendingIndex(pending_arp_reqs, pending_req)
     IN IF i # NULL
        THEN /\ stale' = stale
             /\ \E ok \in BOOLEAN :
                  IF ok
                  THEN /\ pending_arp_reqs' =
                            chirouter_arp_pending_req_add_frame(pending_arp_reqs, i, frame)
                       /\ lock_arp' = "free"
                       /\ rv' = 0
                       /\ pc' = "ret"
                  ELSE /\ pending_arp_reqs' = pending_arp_reqs
                       /\ lock_arp' = lock_arp
                       /\ rv' = -1
                       /\ pc' = "ret"
        ELSE /\ stale' = TRUE
             /\ pending_arp_reqs' = pending_arp_reqs
             /\ \/ /\ lock_arp' = "free"
                   /\ rv' = 0
                   /\ pc' = "ret"
                \/ /\ lock_arp' = lock_arp
                   /\ rv' = rv
                   /\ pc' = "exit"
  /\ UNCHANGED << lookup, rewrite, arp_cache, frame, arpcache_entry, pending_req, sent, wsent,
                  nframes, held0 >>

\* cache hit: ICMP time exceeded, or forward to the MAC read from the entry
\* the lookup returned; the mutex is not held
HitForward ==
  /\ pc = "hit426"
  /\ \E mac \in EntryMACs(arp_cache, arpcache_entry) :
       sent' = Append(sent, ForwardOrExpire(frame, mac))
  /\ rv' = 0
  /\ pc' = "ret"
  /\ UNCHANGED << lookup, rewrite, arp_cache, pending_arp_reqs, lock_arp, frame, arpcache_entry,
                  pending_req, wsent, nframes, held0, stale >>

\* an ARP reply for the ingress interface's address: go on to the cache update
ArpReply ==
  \E f \in Frames :
    /\ Deliver(f)
    /\ f.etype = ETHERTYPE_ARP
    /\ f.dip = interfaces[f.inif].ip
    /\ f.op = ARP_OP_REPLY
    /\ nframes' = nframes + 1
    /\ held0' = held0
    /\ sent' = << >>
    /\ pc' = "lock461"
    /\ UNCHANGED << lookup, rewrite, arp_cache, pending_arp_reqs, lock_arp, arpcache_entry,
                    pending_req, rv, wsent, stale >>

\* chirouter_arp_cache_add and unlock; a failed add returns -1
CacheAdd ==
  /\ pc = "add463"
  /\ lock_arp' = "free"
  /\ \E ok \in BOOLEAN :
       IF ok
       THEN /\ arp_cache' = chirouter_arp_cache_add(arp_cache, frame.sip, frame.smac)
            /\ held0' = HeldFor(pending_arp_reqs, frame.sip)
            /\ rv' = rv
            /\ pc' = "lock473"
       ELSE /\ arp_cache' = arp_cache
            /\ held0' = held0
            /\ rv' = -1
            /\ pc' = "ret"
  /\ UNCHANGED << lookup, rewrite, pending_arp_reqs, frame, arpcache_entry, pending_req, sent,
                  wsent, nframes, stale >>

\* mutant: the withheld list is walked from its tail
DrainFrames_Reversed(req, sha) ==
  [k \in 1 .. Len(req.withheld_frames) |->
     ForwardOrExpire(req.withheld_frames[Len(req.withheld_frames) + 1 - k], sha)]

\* the frames sent for the withheld frames of a request, in list order
DrainFrames(req, sha) ==
  [k \in 1 .. Len(req.withheld_frames) |->
     ForwardOrExpire(req.withheld_frames[k], sha)]

\* look up the pending request of the reply's sender; forward or expire its
\* withheld frames, free them, remove the request; unlock
Drain ==
  /\ pc = "drain474"
  /\ LET i == PendingIndex(pending_arp_reqs, frame.sip)
     IN IF i = NULL
        THEN /\ sent' = sent
             /\ pending_arp_reqs' = pending_arp_reqs
        ELSE /\ sent' = sent \o DrainFrames(pending_arp_reqs[i], frame.smac)
             /\ pending_arp_reqs' = RemoveAt(pending_arp_reqs, i)
  /\ lock_arp' = "free"
  /\ rv' = 0
  /\ pc' = "ret"
  /\ UNCHANGED << lookup, rewrite, arp_cache, frame, arpcache_entry, pending_req, wsent,
                  nframes, held0, stale >>

\* mutant: the reply is addressed with the request's target address instead
\* of its sender address
ArpRequestAnswer_ToTarget(f) ==
  << chirouter_send_arp_message(f.inif, f.smac, f.dip, ARP_OP_REPLY) >>

\* frame sent for an ARP request f: a reply on the ingress interface to the
\* request's sender (sha, spa)
ArpRequestAnswer(f) ==
  << chirouter_send_arp_message(f.inif, f.smac, f.sip, ARP_OP_REPLY) >>

\* an ARP request for the ingress interface's address: reply to the sender
ArpRequest ==
  \E f \in Frames :
    /\ Deliver(f)
    /\ f.etype = ETHERTYPE_ARP
    /\ f.dip = interfaces[f.inif].ip
    /\ f.op = ARP_OP_REQUEST
    /\ Answer(ArpRequestAnswer(frame'), 0)

\* an ARP packet for the ingress interface's address with another opcode
ArpOtherOp ==
  \E f \in Frames :
    /\ Deliver(f)
    /\ f.etype = ETHERTYPE_ARP
    /\ f.dip = interfaces[f.inif].ip
    /\ f.op # ARP_OP_REPLY
    /\ f.op # ARP_OP_REQUEST
    /\ Answer(<< >>, 0)

\* an ARP packet for another address
ArpNotForMe ==
  \E f \in Frames :
    /\ Deliver(f)
    /\ f.etype = ETHERTYPE_ARP
    /\ f.dip # interfaces[f.inif].ip
    /\ Answer(<< >>, 0)

\* any other ethertype: control reaches the end of the function without a
\* return statement, the caller reads whatever the return register holds
OtherEthertype ==
  \E f \in Frames :
    /\ Deliver(f)
    /\ ~IsIp(f)
    /\ f.etype # ETHERTYPE_ARP
    /\ \E r \in RetVals : Answer(<< >>, r)

\* the call returns to the I/O layer; -1 shuts the router down
Return ==
  /\ pc = "ret"
  /\ pc' = IF rv = -1 THEN "exit" ELSE "idle"
  /\ frame' = NoFrame
  /\ arpcache_entry' = NULL
  /\ pending_req' = NULL
  /\ rv' = 0
  /\ sent' = << >>
  /\ held0' = << >>
  /\ UNCHANGED << lookup, rewrite, arp_cache, pending_arp_reqs, lock_arp, wsent, nframes, stale >>

Next ==
  \/ IpToMe
  \/ IpToOtherInterface
  \/ IpNoRoute
  \/ IpForward
  \/ Lock
  \/ CacheLookup
  \/ PendingLookup
  \/ CreatePending
  \/ AttachPending
  \/ HitForward
  \/ ArpReply
  \/ CacheAdd
  \/ Drain
  \/ ArpRequest
  \/ ArpOtherOp
  \/ ArpNotForMe
  \/ OtherEthertype
  \/ Return
  \/ ArpTick

Spec == Init /\ [][Next]_vars

\* a classifier step in which the deep copy of the frame to withhold, or the
\* insertion into the ARP cache, failed for lack of memory
AllocationFailed ==
  \/ /\ pc = "create389"
     /\ pc' = "ret"
     /\ HeldFor(pending_arp_reqs', ForwardIp(frame)) = << >>
  \/ /\ pc = "attach413"
     /\ pc' = "ret"
     /\ PendingIndex(pending_arp_reqs, pending_req) # NULL
     /\ pending_arp_reqs' = pending_arp_reqs
  \/ /\ pc = "add463"
     /\ pc' = "ret"

\* the steps of a call in progress: the classifier thread runs on

\* the steps that allocate memory, when the allocation succeeds
CreatePendingOk == CreatePending /\ ~AllocationFailed
AttachPendingOk == AttachPending /\ ~AllocationFailed
CacheAddOk == CacheAdd /\ ~AllocationFailed

\* the router when no allocation fails
LiveNext ==
  \/ IpToMe
  \/ IpToOtherInterface
  \/ IpNoRoute
  \/ IpForward
  \/ Lock
  \/ CacheLookup
  \/ PendingLookup
  \/ CreatePendingOk
  \/ AttachPendingOk
  \/ HitForward
  \/ ArpReply
  \/ CacheAddOk
  \/ Drain
  \/ ArpRequest
  \/ ArpOtherOp
  \/ ArpNotForMe
  \/ OtherEthertype
  \/ Return
  \/ ArpTick

\* the steps of a call in progress: the classifier thread runs on
ClassifierStep ==
  \/ Lock
  \/ CacheLookup
  \/ PendingLookup
  \/ CreatePendingOk
  \/ AttachPendingOk
  \/ HitForward
  \/ CacheAddOk
  \/ Drain
  \/ Return

\* no allocation fails, a call in progress runs on, and the worker, which
\* ticks once per second, gets the mutex whenever it stays free
FairSpec ==
  /\ Init
  /\ [][LiveNext]_vars
  /\ WF_vars(ClassifierStep)
  /\ WF_vars(ArpTick)

(* ---------------- chirouter_get_matching_entry alone ------------------ *)

\* routing entries a table can hold: networks 0, 8 and 12 with the prefix
\* masks /0 to /3, well-formed or not (dest 12 with mask 8 matches nothing)
RouteDests == {0, 8, 12}
RouteMasks == {0, 8, 12, 14}
RouteEntries ==
  { [dest |-> d, mask |-> m, gw |-> 0, interface |-> 1] :
      d \in RouteDests, m \in RouteMasks }

\* the routing tables of up to MaxRoutes entries, repeated entries included
RouteTables == UNION { [1 .. n -> RouteEntries] : n \in 0 .. MaxRoutes }

\* destination addresses looked up
LookupDsts == {0, 8, 9, 12, 13, 15}

\* a routing table and a frame's destination are given
LookupInit ==
  /\ RouterInit
  /\ \E t \in RouteTables, d \in LookupDsts :
       lookup = [rt |-> t, dst |-> d, result |-> NULL, pc |-> "call"]
  /\ rewrite = NoRewrite

\* the call runs and returns its entry
LookupCall ==
  /\ lookup.pc = "call"
  /\ lookup' = [lookup EXCEPT
                  !.result = chirouter_get_matching_entry(lookup.rt, lookup.dst),
                  !.pc = "done"]
  /\ UNCHANGED << arp_cache, pending_arp_reqs, lock_arp, pc, frame,
                  arpcache_entry, pending_req, rv, sent, wsent, nframes, held0,
                  stale, rewrite >>

LookupNext == LookupCall

LookupSpec == LookupInit /\ [][LookupNext]_vars

(* ------------------- forward_ip_datagram on its own -------------------- *)

\* sizeof(ethhdr_t) and sizeof(iphdr_t), in bytes
ETHER_HDR_LEN == 14
IP_HDR_LEN == 20

\* ETHER_ADDR_LEN: the bytes of a MAC address
ETHER_ADDR_LEN == 6

\* the most bytes a frame given to the call has after its IP header
MaxBody == 3

\* n zero bytes (memset at 136)
Zeros(n) == [k \in 1 .. n |-> 0]

\* the six bytes of MAC address m, and the four bytes of IP address a, in
\* network order
MacBytes(m) == << 0, 0, 0, 0, 0, m >>
IpBytes(a) == << 0, 0, 0, a >>

\* htons of a 16-bit value, as the two bytes stored
Htons(v) == << v \div 256, v % 256 >>

\* ntohs of the two bytes at 1-based position k of raw
Ntohs(raw, k) == raw[k] * 256 + raw[k + 1]

\* positions in frame->raw (1-based) of the fields of the IP header, which
\* starts after the Ethernet header
IpAt(off) == ETHER_HDR_LEN + off + 1
IP_LEN_OFF == 2
IP_TTL_OFF == 8
IP_CKSUM_OFF == 10
IP_DST_OFF == 16

RECURSIVE WordSum(_, _)
\* the sum of the 16-bit words of bytes from 1-based position k on
WordSum(bytes, k) ==
  IF k > Len(bytes) THEN 0
  ELSE bytes[k] * 256 + (IF k + 1 > Len(bytes) THEN 0 ELSE bytes[k + 1])
       + WordSum(bytes, k + 2)

RECURSIVE Fold(_)
\* end-around carry of a one's complement sum
Fold(s) == IF s >= 65536 THEN Fold((s % 65536) + (s \div 65536)) ELSE s

\* cksum: the Internet checksum of bytes, as the two bytes stored
cksum(bytes) == Htons(65535 - Fold(WordSum(bytes, 1)))

\* raw with the bytes of v stored from 1-based position k on
Store(raw, k, v) ==
  [j \in 1 .. Len(raw) |->
     IF j >= k /\ j < k + Len(v) THEN v[j - k + 1] ELSE raw[j]]

\* the destination address of the IP header of raw
RawDst(raw) == raw[IpAt(IP_DST_OFF) + 3]

\* the routing entry forward_ip_datagram looks up for raw (126)
RawEntry(raw) ==
  routing_table[chirouter_get_matching_entry(routing_table, RawDst(raw))]

\* memcpy(ip_hdr, frame_iphdr, n) at 148 into msg, as far as msg reaches
CopyDatagram(msg, raw, n) ==
  [j \in 1 .. Len(msg) |->
     IF j > ETHER_HDR_LEN /\ j <= ETHER_HDR_LEN + n THEN raw[j] ELSE msg[j]]

\* the bytes forward_ip_datagram sends for the frame raw with destination
\* MAC dst_mac: a zeroed buffer of the frame's length, the Ethernet header
\* written, ntohs(len) bytes copied from the IP header on, the TTL one less
\* and the checksum of the first sizeof(iphdr_t) bytes
ForwardedBytes(raw, dst_mac) ==
  LET msg_len == Len(raw)
      m1 == Store(Zeros(msg_len), 1, MacBytes(dst_mac))
      m2 == Store(m1, ETHER_ADDR_LEN + 1,
                  MacBytes(interfaces[RawEntry(raw).interface].mac))
      m3 == Store(m2, 2 * ETHER_ADDR_LEN + 1, Htons(ETHERTYPE_IP))
      m4 == CopyDatagram(m3, raw, Ntohs(raw, IpAt(IP_LEN_OFF)))
      m5 == Store(m4, IpAt(IP_TTL_OFF), << TtlDecrement(raw[IpAt(IP_TTL_OFF)]) >>)
      m6 == Store(m5, IpAt(IP_CKSUM_OFF), Htons(0))
  IN Store(m6, IpAt(IP_CKSUM_OFF),
           cksum(SubSeq(m6, ETHER_HDR_LEN + 1, ETHER_HDR_LEN + IP_HDR_LEN)))

\* the memcpy at 148 writes past the end of msg and reads past the frame
Overruns(raw) ==
  ETHER_HDR_LEN + Ntohs(raw, IpAt(IP_LEN_OFF)) > Len(raw)

\* an IPv4 header of ihl 32-bit words with total length len, a valid
\* checksum and, when ihl > 5, no-operation options
RawIpHeader(ihl, len, ttl, sip, dip) ==
  LET h == << 64 + ihl, 0 >> \o Htons(len) \o << 0, 0, 0, 0 >>
           \o << ttl, IPPROTO_UDP, 0, 0 >> \o IpBytes(sip) \o IpBytes(dip)
           \o [k \in 1 .. 4 * (ihl - 5) |-> 1]
  IN Store(h, IP_CKSUM_OFF + 1, cksum(h))

\* an inbound frame: n bytes after the IP header, all different and none
\* zero, of which the IP total length declares k
RawFrame(inif, smac, ihl, ttl, sip, dip, n, k) ==
  MacBytes(interfaces[inif].mac) \o MacBytes(smac) \o Htons(ETHERTYPE_IP)
  \o RawIpHeader(ihl, 4 * ihl + k, ttl, sip, dip)
  \o [j \in 1 .. n |-> 100 + j]

\* the frames given to the call: to a directly connected host, through
\* either gateway; without and with options; a body of up to MaxBody bytes
\* whose declared length is short of it (trailing bytes), exact, or one
\* byte beyond the frame
RawFrames ==
  { RawFrame(IF dip = 8 THEN 2 ELSE 1, IF dip = 8 THEN 26 ELSE 21, ihl, ttl,
             IF dip = 8 THEN 6 ELSE 2, dip, n, k) :
      dip \in {6, 8, 10}, ihl \in {5, 6}, ttl \in {2, 64, 255},
      n \in 0 .. MaxBody, k \in 0 .. MaxBody + 1 }

\* a frame with a route and the MAC of its next hop are given
RewriteInit ==
  /\ RouterInit
  /\ lookup = NoLookup
  /\ \E raw \in RawFrames :
       /\ Len(raw) + 1 >= ETHER_HDR_LEN + Ntohs(raw, IpAt(IP_LEN_OFF))
       /\ rewrite = [raw |-> raw,
                     dst_mac |-> NeighbourMAC(get_forward_ip(RawEntry(raw), RawDst(raw))),
                     out |-> << >>, iface |-> NULL, pc |-> "call"]

\* the call runs within its buffers and sends its frame (154)
RewriteCall ==
  /\ rewrite.pc = "call"
  /\ ~Overruns(rewrite.raw)
  /\ rewrite' = [rewrite EXCEPT
                   !.out = ForwardedBytes(rewrite.raw, rewrite.dst_mac),
                   !.iface = RawEntry(rewrite.raw).interface,
                   !.pc = "done"]
  /\ UNCHANGED << arp_cache, pending_arp_reqs, lock_arp, pc, frame,
                  arpcache_entry, pending_req, rv, sent, wsent, nframes, held0,
                  stale, lookup >>

\* the memcpy at 148 overruns msg: undefined behaviour, after which the
\* process is killed or goes on with what landed inside msg
RewriteOverrun ==
  /\ rewrite.pc = "call"
  /\ Overruns(rewrite.raw)
  /\ \/ rewrite' = [rewrite EXCEPT !.pc = "killed"]
     \/ rewrite' = [rewrite EXCEPT
                      !.out = ForwardedBytes(rewrite.raw, rewrite.dst_mac),
                      !.iface = RawEntry(rewrite.raw).interface,
                      !.pc = "done"]
  /\ UNCHANGED << arp_cache, pending_arp_reqs, lock_arp, pc, frame,
                  arpcache_entry, pending_req, rv, sent, wsent, nframes, held0,
                  stale, lookup >>

RewriteNext == RewriteCall \/ RewriteOverrun

RewriteSpec == RewriteInit /\ [][RewriteNext]_vars

(* ------------------------------ claims -------------------------------- *)

\* the current frame is an ARP reply for the address of its ingress interface
IsArpReplyForMe(f) ==
  /\ f.etype = ETHERTYPE_ARP
  /\ f.op = ARP_OP_REPLY
  /\ f.dip = interfaces[f.inif].ip

\* the frames of log on behalf of the inbound frame with this id, in order
SentFor(log, id) == SelectSeq(log, LAMBDA o : o.trig = id)

\* the ARP requests of log for target ip
RequestsFor(log, ip) == SelectSeq(log, LAMBDA o : o.kind = "arpreq" /\ o.dip = ip)

\* a worker step: the worker never moves the classifier
IsTick == pc' = pc /\ lock_arp' = lock_arp /\ sent' = sent

\* C1: when a call that handled an ARP reply from X for the ingress address
\* returns, every frame that was withheld for X when the reply was put in the
\* cache has produced exactly one frame, a forwarded frame to the sender MAC or (TTL 1)
\* an ICMP time exceeded, the pending entry of X is gone and the cache maps X
\* to the sender MAC
C1_ReplyDrainsWithheld ==
  (pc = "ret" /\ rv = 0 /\ IsArpReplyForMe(frame) /\ held0 # << >>) =>
    /\ \A k \in 1 .. Len(held0) :
         /\ Len(SentFor(sent, held0[k].id)) = 1
         /\ LET o == SentFor(sent, held0[k].id)[1]
            IN IF held0[k].ttl = 1
               THEN o.kind = "icmp" /\ o.type = ICMPTYPE_TIME_EXCEEDED
               ELSE o.kind = "fwd" /\ o.dmac = frame.smac
    /\ PendingIndex(pending_arp_reqs, frame.sip) = NULL
    /\ \E e \in arp_cache : e.ip = frame.sip /\ e.mac = frame.smac

\* C2 (state part): no two pending entries have the same IP
C2_OnePendingPerIp ==
  \A i, j \in 1 .. Len(pending_arp_reqs) :
    pending_arp_reqs[i].ip = pending_arp_reqs[j].ip => i = j

\* C2 (step part): a classifier step that sends an ARP request for X sends
\* exactly one and creates the pending entry of X, so a miss for X while the
\* entry exists sends none and only attaches; a worker tick sends at most
\* one ARP request for X
C2_RequestOnlyOnCreate ==
  \A x \in NeighbourIPs :
    /\ (~IsTick /\ Len(RequestsFor(sent', x)) > Len(RequestsFor(sent, x))) =>
         /\ Len(RequestsFor(sent', x)) = Len(RequestsFor(sent, x)) + 1
         /\ PendingIndex(pending_arp_reqs, x) = NULL
         /\ PendingIndex(pending_arp_reqs', x) # NULL
    /\ (pc = "attach413" /\ pending_req = x /\ PendingIndex(pending_arp_reqs, x) # NULL
          /\ pc' = "ret" /\ rv' = 0) =>
         /\ sent' = sent
         /\ Len(pending_arp_reqs') = Len(pending_arp_reqs)
         /\ HeldFor(pending_arp_reqs', x) = Append(HeldFor(pending_arp_reqs, x), frame)
    /\ IsTick => Len(RequestsFor(wsent', x)) <= 1

\* C2: ARP single-flight
C2_SingleFlight == []C2_OnePendingPerIp /\ [][C2_RequestOnlyOnCreate]_vars

\* C2 witness: a second miss for a next hop returned after attaching its
\* frame to the existing entry, without an ARP request
C2_Witness ==
  /\ pc = "ret"
  /\ rv = 0
  /\ pending_req # NULL
  /\ sent = << >>
  /\ Len(HeldFor(pending_arp_reqs, pending_req)) >= 2
  /\ HeldFor(pending_arp_reqs, pending_req)[2] = frame

\* C3 (state part): no pending entry has had more than 5 ARP requests sent
C3_AtMostFiveRequests ==
  \A i \in 1 .. Len(pending_arp_reqs) : pending_arp_reqs[i].nreq <= 5

\* C3 (step part): the worker removes an entry only after exactly 5 ARP
\* requests for it (the classifier's and four of its own), and then every
\* withheld frame gets exactly one ICMP host unreachable on the interface it
\* arrived on; an entry with fewer requests gets exactly one more
C3_WorkerStep ==
  IsTick =>
    \A i \in 1 .. Len(pending_arp_reqs) :
      LET e == pending_arp_reqs[i]
      IN IF PendingIndex(pending_arp_reqs', e.ip) = NULL
         THEN /\ e.nreq = 5
              /\ RequestsFor(wsent', e.ip) = << >>
              /\ \A k \in 1 .. Len(e.withheld_frames) :
                   /\ Len(SentFor(wsent', e.withheld_frames[k].id)) = 1
                   /\ LET o == SentFor(wsent', e.withheld_frames[k].id)[1]
                      IN /\ o.kind = "icmp"
                         /\ o.type = ICMPTYPE_DEST_UNREACHABLE
                         /\ o.code = ICMPCODE_DEST_HOST_UNREACHABLE
                         /\ o.iface = e.withheld_frames[k].inif
         ELSE /\ e.nreq < 5
              /\ Len(RequestsFor(wsent', e.ip)) = 1
              /\ RequestsFor(wsent', e.ip)[1].iface = e.interface
              /\ \A k \in 1 .. Len(e.withheld_frames) :
                   SentFor(wsent', e.withheld_frames[k].id) = << >>

\* C3: abandonment after 5 unanswered ARP requests
C3_Abandonment == []C3_AtMostFiveRequests /\ [][C3_WorkerStep]_vars

\* C3 witness: the worker has just abandoned an entry and answered a frame
\* that arrived on eth0 for a next hop on eth1
C3_Witness ==
  /\ pending_arp_reqs = << >>
  /\ \E k \in 1 .. Len(wsent) :
       /\ wsent[k].kind = "icmp"
       /\ wsent[k].code = ICMPCODE_DEST_HOST_UNREACHABLE
       /\ wsent[k].iface = 1
       /\ wsent[k].dip = HostIP(1)

\* the inbound frame an output was sent for: the current frame or one of the
\* frames withheld for the ARP reply being processed
TriggerOf(o) ==
  IF o.trig = frame.id THEN frame
  ELSE IF \E k \in 1 .. Len(held0) : held0[k].id = o.trig
       THEN held0[CHOOSE k \in 1 .. Len(held0) : held0[k].id = o.trig]
       ELSE NoFrame

\* C4 (state part): no forwarded frame was sent for an inbound frame with
\* TTL 1
C4_NoForwardOfTtl1 ==
  \A k \in 1 .. Len(sent) :
    sent[k].kind = "fwd" => TriggerOf(sent[k]).ttl # 1

\* C4 (step part): on a cache hit a frame with TTL 1 produces exactly one
\* frame, an ICMP time exceeded on its ingress interface; so does every
\* withheld frame with TTL 1 when an ARP reply drains its entry
C4_ExpireStep ==
  /\ (pc = "hit426" /\ pc' = "ret" /\ frame.ttl = 1) =>
       /\ Len(sent') = Len(sent) + 1
       /\ sent'[Len(sent')].kind = "icmp"
       /\ sent'[Len(sent')].type = ICMPTYPE_TIME_EXCEEDED
       /\ sent'[Len(sent')].iface = frame.inif
       /\ sent'[Len(sent')].trig = frame.id
  /\ (pc = "drain474" /\ pc' = "ret") =>
       \A k \in 1 .. Len(HeldFor(pending_arp_reqs, frame.sip)) :
         LET f == HeldFor(pending_arp_reqs, frame.sip)[k]
         IN f.ttl = 1 =>
              /\ Len(SentFor(sent', f.id)) = 1
              /\ SentFor(sent', f.id)[1].kind = "icmp"
              /\ SentFor(sent', f.id)[1].type = ICMPTYPE_TIME_EXCEEDED
              /\ SentFor(sent', f.id)[1].iface = f.inif

\* C4: a frame with TTL 1 is never forwarded
C4_Ttl1NeverForwarded == []C4_NoForwardOfTtl1 /\ [][C4_ExpireStep]_vars

\* C4 witness: an ARP reply drained a withheld frame with TTL 1 into an ICMP
\* time exceeded on the interface the frame arrived on
C4_Witness ==
  /\ pc = "ret"
  /\ IsArpReplyForMe(frame)
  /\ \E k \in 1 .. Len(held0) :
       /\ held0[k].ttl = 1
       /\ held0[k].inif # frame.inif
       /\ SentFor(sent, held0[k].id) # << >>
       /\ SentFor(sent, held0[k].id)[1].type = ICMPTYPE_TIME_EXCEEDED

\* C5: every forwarded frame carries the inbound TTL minus one, as an integer
C5_TtlDecrementedByOne ==
  \A k \in 1 .. Len(sent) :
    sent[k].kind = "fwd" => sent[k].ttl = TriggerOf(sent[k]).ttl - 1

\* the classifier is about to read or write the ARP cache or the pending
\* list, or an entry a lookup returned
AccessesArpTables ==
  \/ pc \in {"lookup375", "lookup381", "create389", "attach413", "add463", "drain474"}
  \/ pc = "hit426" /\ frame.ttl # 1

\* C6: the classifier holds the ARP mutex at every access to the cache, the
\* pending list and the entries its lookups returned
C6_AccessUnderMutex ==
  AccessesArpTables => lock_arp = "classifier"

\* the step delivers an IP datagram addressed to its ingress interface
DeliversToMe ==
  /\ pc = "idle"
  /\ pc' # "idle"
  /\ IsIp(frame')
  /\ frame'.dip = interfaces[frame'.inif].ip

\* exactly one frame was sent in the step, an ICMP message of this type and
\* code on the ingress interface of the delivered frame, and the call returned
OneIcmp(type, code) ==
  /\ pc' = "ret"
  /\ Len(sent') = 1
  /\ sent'[1].kind = "icmp"
  /\ sent'[1].type = type
  /\ sent'[1].code = code
  /\ sent'[1].iface = frame'.inif
  /\ sent'[1].trig = frame'.id

\* C7: for a datagram addressed to the ingress interface TCP and UDP give
\* port unreachable (even with TTL 1), else TTL 1 gives time exceeded (even
\* for an echo request), else an echo request gives an echo reply; one frame
\* is sent on the ingress interface, cache and pending list stay as they are
C7_Step ==
  DeliversToMe =>
    /\ UNCHANGED << arp_cache, pending_arp_reqs >>
    /\ (frame'.proto \in {IPPROTO_TCP, IPPROTO_UDP}) =>
         OneIcmp(ICMPTYPE_DEST_UNREACHABLE, ICMPCODE_DEST_PORT_UNREACHABLE)
    /\ (frame'.proto \notin {IPPROTO_TCP, IPPROTO_UDP} /\ frame'.ttl = 1) =>
         OneIcmp(ICMPTYPE_TIME_EXCEEDED, 0)
    /\ (frame'.proto = IPPROTO_ICMP /\ frame'.ttl # 1
          /\ frame'.itype = ICMPTYPE_ECHO_REQUEST) =>
         OneIcmp(ICMPTYPE_ECHO_REPLY, 0)

C7_LocalOrder == [][C7_Step]_vars

\* C7 witness: an echo request with TTL 1 for the ingress interface was
\* answered with time exceeded
C7_Witness ==
  /\ pc = "ret"
  /\ frame.dip = interfaces[frame.inif].ip
  /\ frame.proto = IPPROTO_ICMP
  /\ frame.itype = ICMPTYPE_ECHO_REQUEST
  /\ frame.ttl = 1
  /\ Len(sent) = 1
  /\ sent[1].type = ICMPTYPE_TIME_EXCEEDED

\* C8 as claimed: every datagram for the ingress interface that is not TCP
\* or UDP, has no TTL 1 and is no echo request gets exactly one protocol
\* unreachable
C8_Step_Claimed ==
  (DeliversToMe /\ frame'.proto \notin {IPPROTO_TCP, IPPROTO_UDP} /\ frame'.ttl # 1
     /\ ~(frame'.proto = IPPROTO_ICMP /\ frame'.itype = ICMPTYPE_ECHO_REQUEST)) =>
    OneIcmp(ICMPTYPE_DEST_UNREACHABLE, ICMPCODE_DEST_PROTOCOL_UNREACHABLE)

C8_ProtocolUnreachable_Claimed == [][C8_Step_Claimed]_vars

\* C8 amended: a datagram for the ingress interface that is not TCP, UDP or
\* ICMP and has no TTL 1 gets exactly one protocol unreachable; an ICMP
\* message other than an echo request (TTL not 1) gets no answer at all
C8_Step ==
  /\ (DeliversToMe /\ frame'.proto \notin {IPPROTO_TCP, IPPROTO_UDP, IPPROTO_ICMP}
        /\ frame'.ttl # 1) =>
       OneIcmp(ICMPTYPE_DEST_UNREACHABLE, ICMPCODE_DEST_PROTOCOL_UNREACHABLE)
  /\ (DeliversToMe /\ frame'.proto = IPPROTO_ICMP /\ frame'.ttl # 1
        /\ frame'.itype # ICMPTYPE_ECHO_REQUEST) =>
       /\ pc' = "ret"
       /\ rv' = 0
       /\ sent' = << >>

C8_ProtocolUnreachable == [][C8_Step]_vars

\* C8 witness: an echo reply addressed to the ingress interface was dropped
\* without an answer
C8_Witness ==
  /\ pc = "ret"
  /\ IsIp(frame)
  /\ frame.dip = interfaces[frame.inif].ip
  /\ frame.proto = IPPROTO_ICMP
  /\ frame.itype = ICMPTYPE_ECHO_REPLY
  /\ frame.ttl # 1
  /\ sent = << >>

\* some routing entry matches the address
HasRoute(ip) ==
  \E j \in 1 .. Len(routing_table) :
    BitAnd(ip, routing_table[j].mask) = routing_table[j].dest

\* C9: a datagram for the address of another interface of the router gets
\* exactly one host unreachable on its ingress interface and the call
\* returns at once: no forwarding, no ARP request, no pending entry
C9_Step ==
  (pc = "idle" /\ pc' # "idle" /\ IsIp(frame')
     /\ \E i \in IfIdx : i # frame'.inif /\ interfaces[i].ip = frame'.dip) =>
    /\ OneIcmp(ICMPTYPE_DEST_UNREACHABLE, ICMPCODE_DEST_HOST_UNREACHABLE)
    /\ rv' = 0
    /\ UNCHANGED << arp_cache, pending_arp_reqs, nframes >>

C9_OtherInterface == [][C9_Step]_vars

\* C9 witness: such a datagram with TTL 1 and a matching route was answered
C9_Witness ==
  /\ pc = "ret"
  /\ IsIp(frame)
  /\ frame.dip = interfaces[3 - frame.inif].ip
  /\ HasRoute(frame.dip)
  /\ frame.ttl = 1
  /\ Len(sent) = 1
  /\ sent[1].code = ICMPCODE_DEST_HOST_UNREACHABLE

\* C10: a datagram for an address that is none of the router's and matches no
\* routing entry gets exactly one network unreachable on its ingress
\* interface; the call returns 0, sends no ARP request and leaves cache and
\* pending list alone
C10_Step ==
  (pc = "idle" /\ pc' # "idle" /\ IsIp(frame')
     /\ (\A i \in IfIdx : interfaces[i].ip # frame'.dip)
     /\ ~HasRoute(frame'.dip)) =>
    /\ OneIcmp(ICMPTYPE_DEST_UNREACHABLE, ICMPCODE_DEST_NET_UNREACHABLE)
    /\ rv' = 0
    /\ UNCHANGED << arp_cache, pending_arp_reqs, nframes >>

C10_NoRoute == [][C10_Step]_vars

\* C10 witness: a datagram without a route was answered while a pending
\* entry existed
C10_Witness ==
  /\ pc = "ret"
  /\ IsIp(frame)
  /\ ~HasRoute(frame.dip)
  /\ rv = 0
  /\ Len(sent) = 1
  /\ sent[1].code = ICMPCODE_DEST_NET_UNREACHABLE
  /\ pending_arp_reqs # << >>

\* C11: a call in which an allocation failed returns the non-critical error
\* result 1, never the fatal result -1, and keeps none of the frame
C11_Step ==
  AllocationFailed =>
    /\ rv' = 1
    /\ \A i \in 1 .. Len(pending_arp_reqs') :
         \A k \in 1 .. Len(pending_arp_reqs'[i].withheld_frames) :
           pending_arp_reqs'[i].withheld_frames[k].id # frame.id

C11_AllocFailureNoncritical == [][C11_Step]_vars

\* the entries of table rt that match address dst
Matching(rt, dst) ==
  { j \in 1 .. Len(rt) : BitAnd(dst, rt[j].mask) = rt[j].dest }

\* C12: the lookup returns none exactly when no entry matches; otherwise it
\* returns a matching entry whose mask is the largest among the matching
\* entries, and the first in table order of those with that mask
C12_LongestPrefixFirst ==
  lookup.pc = "done" =>
    LET m == Matching(lookup.rt, lookup.dst)
        r == lookup.result
    IN IF m = {}
       THEN r = NULL
       ELSE /\ r \in m
            /\ \A j \in m : lookup.rt[j].mask <= lookup.rt[r].mask
            /\ \A j \in m : lookup.rt[j].mask = lookup.rt[r].mask => r <= j

\* C12 witness: of three matching entries the last two share the largest
\* mask, and the second entry was returned
C12_Witness ==
  /\ lookup.pc = "done"
  /\ Len(lookup.rt) = 3
  /\ Matching(lookup.rt, lookup.dst) = {1, 2, 3}
  /\ lookup.rt[1].mask < lookup.rt[2].mask
  /\ lookup.rt[2].mask = lookup.rt[3].mask
  /\ lookup.result = 2

\* the ARP cache has an entry for ip
InCache(cache, ip) == \E e \in cache : e.ip = ip

\* the classifier is inside the call for an ARP reply from ip, between the
\* insertion into the cache and the removal of the pending entry
DrainingReplyFrom(ip) ==
  /\ pc \in {"lock473", "drain474"}
  /\ IsArpReplyForMe(frame)
  /\ frame.sip = ip

\* C13 (state part): an IP has a pending entry and a cache entry together
\* only while the classifier is inside the ARP-reply call from that IP that
\* inserted the cache entry; never when no call is in progress
C13_CoexistOnlyInReply ==
  \A x \in NeighbourIPs :
    (PendingIndex(pending_arp_reqs, x) # NULL /\ InCache(arp_cache, x)) =>
      DrainingReplyFrom(x)

\* C13 (step part): a pending entry is created only for an IP without a cache
\* entry, so a cache entry beside a pending entry was inserted after the
\* pending entry was created, by the cache insertion of an ARP reply
C13_Step ==
  \A x \in NeighbourIPs :
    /\ (PendingIndex(pending_arp_reqs, x) = NULL
          /\ PendingIndex(pending_arp_reqs', x) # NULL) =>
         ~InCache(arp_cache, x) /\ ~InCache(arp_cache', x)
    /\ (PendingIndex(pending_arp_reqs', x) # NULL
          /\ ~InCache(arp_cache, x) /\ InCache(arp_cache', x)) =>
         /\ pc = "add463"
         /\ frame.sip = x
         /\ PendingIndex(pending_arp_reqs, x) # NULL

\* C13: pending entry and cache entry for one IP coexist only inside the ARP
\* reply that resolves the entry
C13_PendingCacheCoexistence == []C13_CoexistOnlyInReply /\ [][C13_Step]_vars

\* C13 witness: the reply from X is in the cache, the pending entry of X with
\* a withheld frame is still in the list, the mutex is free
C13_Witness ==
  /\ pc = "lock473"
  /\ lock_arp = "free"
  /\ InCache(arp_cache, frame.sip)
  /\ HeldFor(pending_arp_reqs, frame.sip) # << >>

\* C14 (state part): every pending entry has 1 <= times_sent <= 5
C14_TimesSentInRange ==
  \A i \in 1 .. Len(pending_arp_reqs) :
    /\ 1 <= pending_arp_reqs[i].times_sent
    /\ pending_arp_reqs[i].times_sent <= 5

\* C14 (step part): a new entry starts with times_sent = 1 and last_sent =
\* now; the classifier never changes times_sent of an entry; the worker
\* removes an entry it finds with times_sent >= 5 and adds one to the others
C14_Step ==
  \A x \in NeighbourIPs :
    LET i == PendingIndex(pending_arp_reqs, x)
        j == PendingIndex(pending_arp_reqs', x)
    IN /\ (i = NULL /\ j # NULL) =>
            /\ ~IsTick
            /\ pending_arp_reqs'[j].times_sent = 1
            /\ pending_arp_reqs'[j].last_sent = "now"
       /\ (i # NULL /\ j # NULL /\ ~IsTick) =>
            pending_arp_reqs'[j].times_sent = pending_arp_reqs[i].times_sent
       /\ (i # NULL /\ IsTick) =>
            IF pending_arp_reqs[i].times_sent >= 5
            THEN j = NULL
            ELSE /\ j # NULL
                 /\ pending_arp_reqs'[j].times_sent = pending_arp_reqs[i].times_sent + 1
                 /\ pending_arp_reqs'[j].last_sent = "now"

\* C14: times_sent of a pending entry stays between 1 and 5
C14_TimesSentBounds == []C14_TimesSentInRange /\ [][C14_Step]_vars

\* C14 witness: after the creating call returned the worker has brought an
\* entry with a withheld frame to times_sent = 5
C14_Witness ==
  /\ pc = "idle"
  /\ \E i \in 1 .. Len(pending_arp_reqs) :
       /\ pending_arp_reqs[i].times_sent = 5
       /\ pending_arp_reqs[i].withheld_frames # << >>

\* the step delivers an ARP packet to the classifier
DeliversArp ==
  /\ pc = "idle"
  /\ pc' # "idle"
  /\ frame'.etype = ETHERTYPE_ARP

\* C15: the classifier changes the ARP cache only inside a call for an ARP
\* reply addressed to the ingress interface; an ARP request for the ingress
\* address is answered with exactly one ARP reply on the ingress interface
\* to the requester, cache and pending list unchanged; any other opcode, or
\* a target address that is not the ingress interface's, sends nothing,
\* changes nothing and returns 0
C15_Step ==
  /\ (~IsTick /\ arp_cache' # arp_cache) => IsArpReplyForMe(frame)
  /\ (DeliversArp /\ frame'.dip = interfaces[frame'.inif].ip
        /\ frame'.op = ARP_OP_REQUEST) =>
       /\ pc' = "ret"
       /\ rv' = 0
       /\ Len(sent') = 1
       /\ sent'[1].kind = "arprep"
       /\ sent'[1].iface = frame'.inif
       /\ sent'[1].smac = interfaces[frame'.inif].mac
       /\ sent'[1].sip = interfaces[frame'.inif].ip
       /\ sent'[1].dmac = frame'.smac
       /\ sent'[1].dip = frame'.sip
       /\ UNCHANGED << arp_cache, pending_arp_reqs >>
  /\ (DeliversArp /\ (frame'.dip # interfaces[frame'.inif].ip
                        \/ frame'.op \notin {ARP_OP_REQUEST, ARP_OP_REPLY})) =>
       /\ pc' = "ret"
       /\ rv' = 0
       /\ sent' = << >>
       /\ UNCHANGED << arp_cache, pending_arp_reqs >>

C15_ArpHandling == [][C15_Step]_vars

\* C15 witness: an ARP request was answered while a frame was withheld for
\* its sender, the pending entry and the empty cache left as they were
C15_Witness ==
  /\ pc = "ret"
  /\ frame.etype = ETHERTYPE_ARP
  /\ frame.op = ARP_OP_REQUEST
  /\ Len(sent) = 1
  /\ sent[1].kind = "arprep"
  /\ HeldFor(pending_arp_reqs, frame.sip) # << >>
  /\ ~InCache(arp_cache, frame.sip)

\* C16: every call returns one of ok (0), non-critical error (1) and fatal
\* error (-1), and a call for a frame whose ethertype is none of IPv4, IPv6
\* and ARP returns ok and has sent nothing
C16_DefinedResult ==
  pc = "ret" =>
    /\ rv \in {0, 1, -1}
    /\ (~IsIp(frame) /\ frame.etype # ETHERTYPE_ARP) =>
         rv = 0 /\ sent = << >>

\* C17: every ICMP message the classifier sends goes out on the interface its
\* triggering frame arrived on, from that interface's MAC and IP to the
\* triggering frame's source MAC and source IP, with TTL 64; for a withheld
\* frame that is the interface it arrived on, not the ARP reply's
C17_IcmpAddressing ==
  \A k \in 1 .. Len(sent) :
    sent[k].kind = "icmp" =>
      LET t == TriggerOf(sent[k])
      IN /\ t # NoFrame
         /\ sent[k].iface = t.inif
         /\ sent[k].smac = interfaces[t.inif].mac
         /\ sent[k].dmac = t.smac
         /\ sent[k].sip = interfaces[t.inif].ip
         /\ sent[k].dip = t.sip
         /\ sent[k].ttl = 64

\* C17 witness: the call for an ARP reply sent an ICMP message for a
\* withheld frame on another interface than the reply's
C17_Witness ==
  /\ pc = "ret"
  /\ IsArpReplyForMe(frame)
  /\ \E k \in 1 .. Len(sent) :
       /\ sent[k].kind = "icmp"
       /\ sent[k].iface # frame.inif
       /\ sent[k].dip = HostIP(sent[k].iface)

\* C18: when a call has returned, whatever its result, the classifier does
\* not hold the ARP mutex, so the worker can always take it
C18_MutexFreeOnReturn ==
  pc \in {"ret", "idle"} => lock_arp = "free"

\* C19: when the classifier attaches a frame to the pending entry its lookup
\* returned, that entry is still in the pending list: no worker tick removed
\* it between the lookup and the attachment
C19_AttachToLiveEntry ==
  /\ pc = "attach413" => PendingIndex(pending_arp_reqs, pending_req) # NULL
  /\ ~stale

\* the frame with this id is on the withheld list of an entry of reqs
IsWithheldIn(reqs, id) ==
  \E j \in 1 .. Len(reqs) :
    \E k \in 1 .. Len(reqs[j].withheld_frames) :
      reqs[j].withheld_frames[k].id = id

\* the classifier, holding the mutex, is about to put the frame with this id
\* on a withheld list
SetOutToWithhold(id) ==
  /\ pc \in {"create389", "attach413"}
  /\ frame.id = id

\* the frame with this id is on no withheld list any more and one frame was
\* sent for it: its forwarded copy or an ICMP time exceeded by the call for
\* an ARP reply, or an ICMP host unreachable by the worker
Disposed(id) ==
  /\ ~IsWithheldIn(pending_arp_reqs, id)
  /\ \/ /\ IsArpReplyForMe(frame)
        /\ Len(SentFor(sent, id)) = 1
        /\ \/ SentFor(sent, id)[1].kind = "fwd"
           \/ SentFor(sent, id)[1].type = ICMPTYPE_TIME_EXCEEDED
     \/ /\ Len(SentFor(wsent, id)) = 1
        /\ SentFor(wsent, id)[1].type = ICMPTYPE_DEST_UNREACHABLE
        /\ SentFor(wsent, id)[1].code = ICMPCODE_DEST_HOST_UNREACHABLE

\* C20 (step part): a step that takes a frame off its withheld list sends
\* exactly one frame for it, in the classifier or in the worker
C20_DisposeStep ==
  \A id \in 1 .. MaxFrames :
    (IsWithheldIn(pending_arp_reqs, id) /\ ~IsWithheldIn(pending_arp_reqs', id)) =>
      IF IsTick
      THEN Len(SentFor(wsent', id)) = 1 /\ SentFor(sent', id) = << >>
      ELSE Len(SentFor(sent', id)) = 1 /\ wsent' = wsent

\* C20: with a fair worker and no allocation failure, and as long as the
\* router is not shut down, every frame the classifier withholds is
\* eventually disposed of exactly once, forwarded or answered with time
\* exceeded after an ARP reply or answered with host unreachable on
\* abandonment; none is lost or queued forever, and every pending entry is
\* eventually removed
C20_WithheldEventuallyDisposed ==
  /\ \A id \in 1 .. MaxFrames :
       (SetOutToWithhold(id) \/ IsWithheldIn(pending_arp_reqs, id)) ~>
         (Disposed(id) \/ pc = "exit")
  /\ \A x \in NeighbourIPs :
       (PendingIndex(pending_arp_reqs, x) # NULL) ~>
         (PendingIndex(pending_arp_reqs, x) = NULL \/ pc = "exit")
  /\ [][C20_DisposeStep]_vars

\* the ids of the inbound frames the outputs of log were sent for, in order
TriggerIds(log) == [k \in 1 .. Len(log) |-> log[k].trig]

\* C21 (state part): the withheld list of an entry holds its frames in the
\* order in which they arrived (ids grow with arrival)
C21_HeldInArrivalOrder ==
  \A i \in 1 .. Len(pending_arp_reqs) :
    \A k, l \in 1 .. Len(pending_arp_reqs[i].withheld_frames) :
      k < l => pending_arp_reqs[i].withheld_frames[k].id
                 < pending_arp_reqs[i].withheld_frames[l].id

\* C21 (step part): an attached frame goes to the end of the withheld list,
\* and the drain of an entry emits one output per withheld frame, in the
\* order of the list
C21_Step ==
  /\ (pc \in {"create389", "attach413"} /\ pc' = "ret"
        /\ IsWithheldIn(pending_arp_reqs', frame.id)) =>
       LET h == HeldFor(pending_arp_reqs', ForwardIp(frame))
       IN /\ h # << >>
          /\ h[Len(h)] = frame
          /\ SubSeq(h, 1, Len(h) - 1) = HeldFor(pending_arp_reqs, ForwardIp(frame))
  /\ (pc = "drain474" /\ pc' = "ret") =>
       TriggerIds(sent') =
         TriggerIds(sent) \o
           [k \in 1 .. Len(HeldFor(pending_arp_reqs, frame.sip)) |->
              HeldFor(pending_arp_reqs, frame.sip)[k].id]

\* C21: the frames withheld on one entry are drained in arrival order
C21_DrainInArrivalOrder == []C21_HeldInArrivalOrder /\ [][C21_Step]_vars

\* C21 witness: an ARP reply drained two withheld frames, the first into an
\* ICMP time exceeded or a forwarded frame and the second into the other
\* kind, the output for the earlier frame first
C21_Witness ==
  /\ pc = "ret"
  /\ IsArpReplyForMe(frame)
  /\ Len(sent) = 2
  /\ sent[1].trig < sent[2].trig
  /\ sent[1].kind # sent[2].kind
  /\ Len(held0) = 2

\* positions in a frame of the bytes forward_ip_datagram is to change
\* after the Ethernet header: the TTL and the two bytes of the checksum
RewrittenAt == {IpAt(IP_TTL_OFF), IpAt(IP_CKSUM_OFF), IpAt(IP_CKSUM_OFF) + 1}

\* the Ethernet header of out: to dst_mac, from the interface of the
\* longest-prefix route for the destination of raw, ethertype IPv4
ForwardedHeaderOk(raw, dst_mac, out, iface) ==
  /\ Len(out) = Len(raw)
  /\ iface = RawEntry(raw).interface
  /\ SubSeq(out, 1, ETHER_ADDR_LEN) = MacBytes(dst_mac)
  /\ SubSeq(out, ETHER_ADDR_LEN + 1, 2 * ETHER_ADDR_LEN) = MacBytes(interfaces[iface].mac)
  /\ SubSeq(out, 2 * ETHER_ADDR_LEN + 1, ETHER_HDR_LEN) = Htons(ETHERTYPE_IP)

\* C22: a forwarded frame has the length of the inbound frame, is sent on
\* the interface of the longest-prefix route for its destination, from that
\* interface's MAC to the resolved next-hop MAC with ethertype IPv4, and
\* every byte after the Ethernet header other than the TTL and the checksum
\* equals the inbound frame's byte at the same offset, trailing bytes beyond
\* the IP total length and IP options included.
C22_ForwardedFrame ==
  rewrite.pc = "done" =>
    /\ ForwardedHeaderOk(rewrite.raw, rewrite.dst_mac, rewrite.out, rewrite.iface)
    /\ \A j \in ETHER_HDR_LEN + 1 .. Len(rewrite.raw) :
         j \notin RewrittenAt => rewrite.out[j] = rewrite.raw[j]

====
